---- MODULE Spec2Model ----
(***************************************************************************)
(* Model of homework.py: the fitness-tracker module with the classes       *)
(* InfoMessage, Training, Running, SportsWalking, Swimming, the dispatcher *)
(* read_package, the function main and the __main__ loop.                  *)
(*                                                                         *)
(* Numbers.  The sensor data are Python ints (as in the packages of        *)
(* __main__); every arithmetic result is a Python float, that is an IEEE   *)
(* 754 binary64 value.  A float is modelled bit-exactly as a record        *)
(* with fields m and e standing for m * 2^e, m a 53-bit mantissa held as a *)
(* little-endian sequence of 14-bit limbs (TLC integers are 32 bits wide), *)
(* and zero as m = <<>>, e = 0.  Every operation rounds to nearest, ties   *)
(* to even.  All values of the program are non-negative for                *)
(* non-negative data, so no sign is kept; the bounded data keep every      *)
(* result far from overflow and from the subnormal range.                  *)
(***************************************************************************)
EXTENDS Integers, Sequences, FiniteSets, TLC

(***************************************************************************)
(* TLC evaluates the argument of an operator where the operator first uses *)
(* it, which nests the evaluation of an arithmetic expression as deep as   *)
(* the expression is.  The operators below that take numbers bind their    *)
(* arguments as elements of singleton sets (CHOOSE res \in { Op(p1) : p1   *)
(* \in {x} } : TRUE is Op(x)): TLC evaluates x before it applies Op.       *)
(***************************************************************************)

(***************************************************************************)
(* Natural numbers of arbitrary size: little-endian limb sequences without *)
(* high zero limbs; <<>> is 0.                                             *)
(***************************************************************************)
LimbBits == 14

Base == 2^LimbBits

MantBits == 53

Limb(a, k) == IF 1 <= k /\ k <= Len(a) THEN a[k] ELSE 0

\* the index of the highest limb of a that is not zero, 0 if there is none
Top(a) ==
    IF \A k \in 1..Len(a) : a[k] = 0 THEN 0
    ELSE CHOOSE k \in 1..Len(a) :
            a[k] # 0 /\ \A j \in (k + 1)..Len(a) : a[j] = 0

\* a without its high zero limbs
BNormV(a) == SubSeq(a, 1, Top(a))

BNorm(a) ==
    CHOOSE res \in { BNormV(p1) : p1 \in {a} } : TRUE

\* n < 2^31 as limbs
FromNat(n) == BNorm([k \in 1..3 |-> (n \div Base^(k - 1)) % Base])

\* a < Base^2 as a number
ToNat(a) == Limb(a, 1) + Base * Limb(a, 2)

\* a + b; the carry into limb k is found by looking back for the limb
\* that generates it
BAddV(a, b) ==
    LET n    == IF Len(a) > Len(b) THEN Len(a) ELSE Len(b)
        S(k) == Limb(a, k) + Limb(b, k)
        C(k) == IF \E j \in 1..(k - 1) :
                      S(j) >= Base /\ \A l \in (j + 1)..(k - 1) : S(l) = Base - 1
                THEN 1 ELSE 0
    IN  BNorm([k \in 1..(n + 1) |-> (S(k) + C(k)) % Base])

BAdd(a, b) ==
    CHOOSE res \in { BAddV(p1, p2) : p1 \in {a}, p2 \in {b} } : TRUE

\* a - b for a >= b, the borrows found the same way
BSubV(a, b) ==
    LET C(k) == IF \E j \in 1..(k - 1) :
                      /\ a[j] < Limb(b, j)
                      /\ \A l \in (j + 1)..(k - 1) : a[l] = Limb(b, l)
                THEN 1 ELSE 0
    IN  BNorm([k \in 1..Len(a) |-> (a[k] - Limb(b, k) - C(k)) % Base])

BSub(a, b) ==
    CHOOSE res \in { BSubV(p1, p2) : p1 \in {a}, p2 \in {b} } : TRUE

\* -1, 0, 1 as a < b, a = b, a > b
BCmpV(a, b) ==
    IF Len(a) # Len(b)
    THEN (IF Len(a) < Len(b) THEN -1 ELSE 1)
    ELSE IF a = b THEN 0
    ELSE LET k == CHOOSE k \in 1..Len(a) :
                     a[k] # b[k] /\ \A j \in (k + 1)..Len(a) : a[j] = b[j]
         IN  IF a[k] < b[k] THEN -1 ELSE 1

BCmp(a, b) ==
    CHOOSE res \in { BCmpV(p1, p2) : p1 \in {a}, p2 \in {b} } : TRUE

\* a * k for 0 <= k < Base
BMulSmallV(a, k) ==
    BAdd([j \in 1..Len(a) |-> (a[j] * k) % Base],
         <<0>> \o [j \in 1..Len(a) |-> (a[j] * k) \div Base])

BMulSmall(a, k) ==
    CHOOSE res \in { BMulSmallV(p1, p2) : p1 \in {a}, p2 \in {k} } : TRUE

\* the sum of a[j] * b[k + 1 - j] over j >= from: column k of a * b
RECURSIVE ColSum(_, _, _, _)
ColSum(a, b, k, from) ==
    IF from > Len(a) THEN 0
    ELSE a[from] * Limb(b, k + 1 - from) + ColSum(a, b, k, from + 1)

\* the columns col of a product in limbs: each column sum is below 2^31
\* and is split into three limbs
Columns(col) ==
    BAdd(BAdd([k \in 1..Len(col) |-> col[k] % Base],
              <<0>> \o [k \in 1..Len(col) |-> (col[k] \div Base) % Base]),
         <<0, 0>> \o [k \in 1..Len(col) |-> col[k] \div (Base * Base)])

\* a * b for a, b of at most 7 limbs
BMulV(a, b) ==
    CHOOSE res \in
        { Columns(p1) :
            p1 \in {[k \in 1..(Len(a) + Len(b)) |-> ColSum(a, b, k, 1)]} } :
        TRUE

BMul(a, b) ==
    CHOOSE res \in { BMulV(p1, p2) : p1 \in {a}, p2 \in {b} } : TRUE

\* quotient (limbs k >= from of it, not normalised) and remainder of the
\* limbs k >= from of a by d, 0 < d < 2^16
RECURSIVE BDivSmallAt(_, _, _)
BDivSmallAt(a, d, from) ==
    IF from > Len(a)
    THEN [q |-> <<>>, r |-> 0]
    ELSE LET Low(h) == [q |-> <<(h.r * Base + a[from]) \div d>> \o h.q,
                        r |-> (h.r * Base + a[from]) % d]
         IN  CHOOSE res \in
                 { Low(p1) : p1 \in {BDivSmallAt(a, d, from + 1)} } : TRUE

BDivSmallV(a, d) ==
    LET Norm(h) == [q |-> BNorm(h.q), r |-> h.r]
    IN  CHOOSE res \in { Norm(p1) : p1 \in {BDivSmallAt(a, d, 1)} } : TRUE

\* quotient and remainder of a by d, 0 < d < 2^16
BDivSmall(a, d) ==
    CHOOSE res \in { BDivSmallV(p1, p2) : p1 \in {a}, p2 \in {d} } : TRUE

\* a * 2^s
BShlV(a, s) ==
    LET w == s \div LimbBits
        r == s % LimbBits
    IN  BNorm([k \in 1..(Len(a) + w + 1) |->
                 (Limb(a, k - w) % 2^(LimbBits - r)) * 2^r
                 + Limb(a, k - w - 1) \div 2^(LimbBits - r)])

BShl(a, s) ==
    CHOOSE res \in { BShlV(p1, p2) : p1 \in {a}, p2 \in {s} } : TRUE

\* a \div 2^s
BShrV(a, s) ==
    LET w == s \div LimbBits
        r == s % LimbBits
    IN  BNorm([k \in 1..(Len(a) - w) |->
                 Limb(a, k + w) \div 2^r
                 + (Limb(a, k + w + 1) % 2^r) * 2^(LimbBits - r)])

BShr(a, s) ==
    CHOOSE res \in { BShrV(p1, p2) : p1 \in {a}, p2 \in {s} } : TRUE

\* bit j (0 the lowest) of a
Bit(a, j) == (Limb(a, (j \div LimbBits) + 1) \div 2^(j % LimbBits)) % 2

\* whether any of the s lowest bits of a is set
LowBits(a, s) ==
    \/ \E k \in 1..(s \div LimbBits) : Limb(a, k) # 0
    \/ Limb(a, (s \div LimbBits) + 1) % 2^(s % LimbBits) # 0

\* the number of bits of a
BitLen(a) ==
    IF a = <<>> THEN 0
    ELSE (Len(a) - 1) * LimbBits
         + (CHOOSE n \in 1..LimbBits :
                a[Len(a)] < 2^n /\ a[Len(a)] >= 2^(n - 1))

\* N * 2^(-k) rounded to an integer, to nearest and ties to even (k >= 1)
BShrRoundV(N, k) ==
    LET Round(q) ==
            IF /\ Bit(N, k - 1) = 1
               /\ (LowBits(N, k - 1) \/ Limb(q, 1) % 2 = 1)
            THEN BAdd(q, <<1>>)
            ELSE q
    IN  CHOOSE res \in { Round(p1) : p1 \in {BShr(N, k)} } : TRUE

BShrRound(N, k) ==
    CHOOSE res \in { BShrRoundV(p1, p2) : p1 \in {N}, p2 \in {k} } : TRUE

(***************************************************************************)
(* Python floats (IEEE 754 binary64, round to nearest even).               *)
(***************************************************************************)
FZero == [class |-> "float", m |-> <<>>, e |-> 0]

\* the float nearest to N * 2^E
RoundIntV(N, E) ==
    IF N = <<>> THEN FZero
    ELSE IF BitLen(N) <= MantBits
    THEN [class |-> "float", m |-> BShl(N, MantBits - BitLen(N)),
          e |-> E - (MantBits - BitLen(N))]
    ELSE LET k == BitLen(N) - MantBits
             Carry(m) ==
                 IF BitLen(m) > MantBits
                 THEN [class |-> "float", m |-> BShr(m, 1), e |-> E + k + 1]
                 ELSE [class |-> "float", m |-> m, e |-> E + k]
         IN  CHOOSE res \in { Carry(p1) : p1 \in {BShrRound(N, k)} } : TRUE

RoundInt(N, E) ==
    CHOOSE res \in { RoundIntV(p1, p2) : p1 \in {N}, p2 \in {E} } : TRUE

\* int -> float (exact for the ints of the model)
FromInt(n) == RoundInt(FromNat(n), 0)

FMulV(x, y) == RoundInt(BMul(x.m, y.m), x.e + y.e)

FMul(x, y) ==
    CHOOSE res \in { FMulV(p1, p2) : p1 \in {x}, p2 \in {y} } : TRUE

FAddV(x, y) ==
    IF x.m = <<>> THEN y
    ELSE IF y.m = <<>> THEN x
    ELSE LET e == IF x.e < y.e THEN x.e ELSE y.e
         IN  RoundInt(BAdd(BShl(x.m, x.e - e), BShl(y.m, y.e - e)), e)

FAdd(x, y) ==
    CHOOSE res \in { FAddV(p1, p2) : p1 \in {x}, p2 \in {y} } : TRUE

\* the limb q with q * d <= t < (q + 1) * d, from an estimate est >= q
RECURSIVE DivDigitFrom(_, _, _)
DivDigitFrom(t, d, est) ==
    IF BCmp(BMulSmall(d, est), t) > 0 THEN DivDigitFrom(t, d, est - 1) ELSE est

\* t \div d for t < d * Base, d of L full limbs (its top limb >= Base / 2):
\* the estimate from the top limbs is at most 2 above the quotient limb
DivDigit(t, d) ==
    LET L   == Len(d)
        top == (Limb(t, L + 1) * Base + Limb(t, L)) \div d[L]
    IN  DivDigitFrom(t, d, IF top > Base - 1 THEN Base - 1 ELSE top)

\* long division: n further limbs of the quotient of r by d (r < d) are
\* put below the limbs qs found so far; r ends as the remainder
RECURSIVE DivLimbs(_, _, _, _)
DivLimbs(qs, r, d, n) ==
    IF n = 0
    THEN [q |-> qs, r |-> r]
    ELSE LET t == IF r = <<>> THEN <<>> ELSE <<0>> \o r
             Rest(qs1, r1) == DivLimbs(qs1, r1, d, n - 1)
             Next1(q) ==
                 CHOOSE res \in
                     { Rest(p1, p2) :
                         p1 \in {<<q>> \o qs},
                         p2 \in {BSub(t, BMulSmall(d, q))} } : TRUE
         IN  CHOOSE res \in { Next1(p1) : p1 \in {DivDigit(t, d)} } : TRUE

\* x / y for y # 0: the quotient of the mantissas, its integer bit and 4
\* limbs (56 bits) of fraction, a sticky bit for the remainder, then one
\* rounding
FDivV(x, y) ==
    IF x.m = <<>> THEN FZero
    ELSE LET sh == 2^(4 * LimbBits - MantBits)
             E  == x.e - y.e - (4 * LimbBits + 1)
             Start(n, d) ==
                 IF BCmp(n, d) >= 0
                 THEN DivLimbs(<<1>>, BSub(n, d), d, 4)
                 ELSE DivLimbs(<<>>, n, d, 4)
             Sticky(f) ==
                 RoundInt(BAdd(BShl(BNorm(f.q), 1),
                               IF f.r = <<>> THEN <<>> ELSE <<1>>), E)
             Quot ==
                 CHOOSE res \in
                     { Start(p1, p2) :
                         p1 \in {BMulSmall(x.m, sh)},
                         p2 \in {BMulSmall(y.m, sh)} } : TRUE
         IN  CHOOSE res \in { Sticky(p1) : p1 \in {Quot} } : TRUE

FDiv(x, y) ==
    CHOOSE res \in { FDivV(p1, p2) : p1 \in {x}, p2 \in {y} } : TRUE

\* x <= y
FLeV(x, y) ==
    IF x.m = <<>> THEN TRUE
    ELSE IF y.m = <<>> THEN FALSE
    ELSE LET e == IF x.e < y.e THEN x.e ELSE y.e
         IN  BCmp(BShl(x.m, x.e - e), BShl(y.m, y.e - e)) <= 0

FLe(x, y) ==
    CHOOSE res \in { FLeV(p1, p2) : p1 \in {x}, p2 \in {y} } : TRUE

\* a decimal literal n/d of the source text: the float nearest to it
Lit(n, d) == FDiv(FromInt(n), FromInt(d))

\* n in decimal, in at least w digits
RECURSIVE Pad(_, _)
Pad(n, w) ==
    IF w <= 1 \/ n >= 10^(w - 1) THEN ToString(n) ELSE "0" \o Pad(n, w - 1)

\* str(a) for a natural number a
RECURSIVE BToString(_)
BToString(a) ==
    IF Len(a) <= 2
    THEN ToString(ToNat(a))
    ELSE LET Digits(d) == BToString(d.q) \o Pad(d.r, 4)
         IN  CHOOSE res \in
                 { Digits(p1) : p1 \in {BDivSmall(a, 10000)} } : TRUE

\* format(x, '.3f'): the exact value rounded to 3 decimals, ties to even
Fmt3V(x) ==
    LET Digits(d) == BToString(d.q) \o "." \o Pad(d.r, 3)
        Thousandths(N) ==
            BDivSmall(IF x.e >= 0 THEN BShl(N, x.e) ELSE BShrRound(N, -x.e),
                      1000)
        Scaled ==
            CHOOSE res \in
                { Thousandths(p1) : p1 \in {BMulSmall(x.m, 1000)} } : TRUE
    IN  CHOOSE res \in { Digits(p1) : p1 \in {Scaled} } : TRUE

Fmt3(x) ==
    CHOOSE res \in { Fmt3V(p1) : p1 \in {x} } : TRUE

(***************************************************************************)
(* The program state.  packages, i, pc, training, info, stdout and exc are *)
(* the state of a run of the script (the __main__ block); training, info,  *)
(* ret and call are also the state of a client that imports the module and *)
(* calls its functions.  attrs holds the class attributes, which Python    *)
(* keeps in mutable class dictionaries.                                    *)
(***************************************************************************)
VARIABLES
    attrs,      \* class name -> the attributes its class body defines
    packages,   \* the list the for loop of __main__ iterates
    i,          \* index in packages of the loop's current item
    pc,         \* "for", "main", "exit", "traceback"; "client" for a client
    training,   \* the workout object held, or None
    info,       \* the InfoMessage of the last show_training_info, or None
    stdout,     \* the lines printed so far
    exc,        \* the exception that ended the script, or None
    call,       \* the client's last call: [fn, args]
    ret         \* what that call returned, or the exception it raised

vars == <<attrs, packages, i, pc, training, info, stdout, exc, call, ret>>

None == [class |-> "NoneType"]

\* the class statements of the module, as executed at import
ClassBodies ==
    [Training |->
        [MIN_IN_H |-> 60, M_IN_KM |-> 1000, LEN_STEP |-> Lit(65, 100)],
     Running |->
        [CALORIES_MEAN_SPEED_MULTIPLIER |-> 18,
         CALORIES_MEAN_SPEED_SHIFT |-> Lit(179, 100)],
     SportsWalking |->
        [CALORIES_MEAN_SPEED_MULTIPLIER |-> Lit(35, 1000),
         CALORIES_MEAN_SPEED_SHIFT |-> Lit(29, 1000),
         CALORIES_WEIGHT_MULTIPLIER |-> Lit(35, 1000),
         CALORIES_SPEED_HEIGHT_MULTIPLIER |-> Lit(29, 1000),
         KMH_IN_MSEC |-> Lit(278, 1000),
         CM_IN_M |-> 100,
         MIN_IN_H |-> 60],
     Swimming |->
        [LEN_STEP |-> Lit(138, 100),
         CALORIES_MEAN_SPEED_MULTIPLIER |-> 2,
         CALORIES_MEAN_SPEED_SHIFT |-> Lit(11, 10),
         CALORIES_WEIGHT_MULTIPLIER |-> 2]]

\* self.<name> for a class attribute: the object's class, then its base
\* class Training
Attr(self, name) ==
    IF name \in DOMAIN attrs[self.class]
    THEN attrs[self.class][name]
    ELSE attrs.Training[name]

(***************************************************************************)
(* class Training and its subclasses                                       *)
(***************************************************************************)
Training_init(self, action, duration, weight) ==
    self @@ [action |-> action, duration |-> duration, weight |-> weight]

Running_init(self, action, duration, weight) ==
    Training_init(self, action, duration, weight)

SportsWalking_init(self, action, duration, weight, height) ==
    Training_init(self, action, duration, weight) @@ [height |-> height]

\* Swimming_init with the two pool parameters stored in each other's field
Swimming_init_swapped(self, action, duration, weight, length_pool, count_pool) ==
    Training_init(self, action, duration, weight)
        @@ [length_pool |-> count_pool, count_pool |-> length_pool]

Swimming_init(self, action, duration, weight, length_pool, count_pool) ==
    Training_init(self, action, duration, weight)
        @@ [length_pool |-> length_pool, count_pool |-> count_pool]

\* the positional parameters of each __init__ after self
Params ==
    [Training      |-> <<"action", "duration", "weight">>,
     Running       |-> <<"action", "duration", "weight">>,
     SportsWalking |-> <<"action", "duration", "weight", "height">>,
     Swimming      |-> <<"action", "duration", "weight",
                         "length_pool", "count_pool">>]

\* New binding only as many items of data as cls.__init__ has parameters
\* (cls(*data[:n])): longer data is cut
New_truncating(cls, data) ==
    IF Len(data) < Len(Params[cls])
    THEN [class |-> "TypeError", raised_by |-> cls \o ".__init__",
          expected |-> Len(Params[cls]), given |-> Len(data)]
    ELSE LET self == [class |-> cls]
         IN  CASE cls = "Training" ->
                    Training_init(self, data[1], data[2], data[3])
               [] cls = "Running" ->
                    Running_init(self, data[1], data[2], data[3])
               [] cls = "SportsWalking" ->
                    SportsWalking_init(self, data[1], data[2], data[3],
                                       data[4])
               [] cls = "Swimming" ->
                    Swimming_init(self, data[1], data[2], data[3], data[4],
                                  data[5])

\* cls(*data): the call binds data to the parameters of cls.__init__ and
\* raises TypeError when their numbers differ (too few or too many); the
\* text of the message is not modelled
New(cls, data) ==
    IF Len(data) # Len(Params[cls])
    THEN [class |-> "TypeError", raised_by |-> cls \o ".__init__",
          expected |-> Len(Params[cls]), given |-> Len(data)]
    ELSE LET self == [class |-> cls]
         IN  CASE cls = "Training" ->
                    Training_init(self, data[1], data[2], data[3])
               [] cls = "Running" ->
                    Running_init(self, data[1], data[2], data[3])
               [] cls = "SportsWalking" ->
                    SportsWalking_init(self, data[1], data[2], data[3],
                                       data[4])
               [] cls = "Swimming" ->
                    Swimming_init(self, data[1], data[2], data[3], data[4],
                                  data[5])

\* get_distance reading LEN_STEP of class Training (Training.LEN_STEP for
\* self.LEN_STEP): the step of a subclass is ignored
get_distance_base_step(self) ==
    FDiv(FMul(FromInt(self.action), attrs.Training.LEN_STEP),
         FromInt(Attr(self, "M_IN_KM")))

get_distance(self) ==
    FDiv(FMul(FromInt(self.action), Attr(self, "LEN_STEP")),
         FromInt(Attr(self, "M_IN_KM")))

Training_get_mean_speed(self) ==
    FDiv(get_distance(self), FromInt(self.duration))

Swimming_get_mean_speed(self) ==
    FDiv(FDiv(FromInt(self.length_pool * self.count_pool),
              FromInt(Attr(self, "M_IN_KM"))),
         FromInt(self.duration))

\* get_mean_speed without the override of Swimming
get_mean_speed_no_override(self) == Training_get_mean_speed(self)

\* self.get_mean_speed(): Swimming overrides the method
get_mean_speed(self) ==
    IF self.class = "Swimming"
    THEN Swimming_get_mean_speed(self)
    ELSE Training_get_mean_speed(self)

\* the body is pass: the call returns None
Training_get_spent_calories(self) == None

\* Running_get_spent_calories without the conversion of hours to minutes
Running_get_spent_calories_hours(self) ==
    FMul(FDiv(FMul(FAdd(FMul(FromInt(Attr(self,
                                  "CALORIES_MEAN_SPEED_MULTIPLIER")),
                             get_mean_speed(self)),
                        Attr(self, "CALORIES_MEAN_SPEED_SHIFT")),
                   FromInt(self.weight)),
              FromInt(Attr(self, "M_IN_KM"))),
         FromInt(self.duration))

Running_get_spent_calories(self) ==
    LET MIN_IN_H == 60
    IN  FMul(FMul(FDiv(FMul(FAdd(FMul(FromInt(Attr(self,
                                      "CALORIES_MEAN_SPEED_MULTIPLIER")),
                                      get_mean_speed(self)),
                                 Attr(self, "CALORIES_MEAN_SPEED_SHIFT")),
                            FromInt(self.weight)),
                       FromInt(Attr(self, "M_IN_KM"))),
                  FromInt(self.duration)),
             FromInt(MIN_IN_H))

\* x ** 2 is pow(x, 2.0), here the correctly rounded square
SportsWalking_get_spent_calories(self) ==
    LET MIN_IN_H == 60
        ms    == FMul(get_mean_speed(self), Attr(self, "KMH_IN_MSEC"))
        speed == FMul(ms, ms)
        h     == FDiv(FromInt(self.height), FromInt(Attr(self, "CM_IN_M")))
    IN  FMul(FMul(FAdd(FMul(Attr(self, "CALORIES_MEAN_SPEED_MULTIPLIER"),
                            FromInt(self.weight)),
                       FMul(FMul(FDiv(speed, h),
                                 Attr(self, "CALORIES_MEAN_SPEED_SHIFT")),
                            FromInt(self.weight))),
                  FromInt(self.duration)),
             FromInt(MIN_IN_H))

Swimming_get_spent_calories(self) ==
    FMul(FMul(FMul(FAdd(get_mean_speed(self),
                        Attr(self, "CALORIES_MEAN_SPEED_SHIFT")),
                   FromInt(Attr(self, "CALORIES_MEAN_SPEED_MULTIPLIER"))),
              FromInt(self.weight)),
         FromInt(self.duration))

\* self.get_spent_calories(): every subclass overrides the method
get_spent_calories(self) ==
    CASE self.class = "Running" -> Running_get_spent_calories(self)
      [] self.class = "SportsWalking" -> SportsWalking_get_spent_calories(self)
      [] self.class = "Swimming" -> Swimming_get_spent_calories(self)
      [] OTHER -> Training_get_spent_calories(self)

InfoMessage_init(self, training_type, duration, distance, speed, calories) ==
    self @@ [training_type |-> training_type, duration |-> duration,
             distance |-> distance, speed |-> speed, calories |-> calories]

\* show_training_info adding the distance to that of the summary before
\* (a total kept between the calls)
show_training_info_stateful(self) ==
    InfoMessage_init([class |-> "InfoMessage"], self.class, self.duration,
                     IF info = None THEN get_distance(self)
                     ELSE FAdd(info.distance, get_distance(self)),
                     get_mean_speed(self), get_spent_calories(self))

show_training_info(self) ==
    InfoMessage_init([class |-> "InfoMessage"], self.class, self.duration,
                     get_distance(self), get_mean_speed(self),
                     get_spent_calories(self))

\* The f-string of get_message.  Its Cyrillic labels are written in Latin
\* letters (a TLA+ string holds ASCII only).  duration is an int, which
\* format converts to float; formatting None with '.3f' raises TypeError.
get_message(self) ==
    IF self.calories = None
    THEN [class |-> "TypeError", raised_by |-> "NoneType.__format__"]
    ELSE [class |-> "str",
          s |-> "Tip trenirovki: " \o self.training_type
                \o "; Dlitelnost: " \o Fmt3(FromInt(self.duration)) \o " ch."
                \o "; Distantsiya: " \o Fmt3(self.distance) \o " km"
                \o "; Sr. skorost: " \o Fmt3(self.speed) \o " km/ch"
                \o "; Potracheno kkal: " \o Fmt3(self.calories) \o "."]

IsException(v) == v.class \in {"KeyError", "TypeError"}

\* read_package looking the class up with a default
\* (action_classes.get(workout_type, Running))
read_package_default(workout_type, data) ==
    LET action_classes ==
            [SWM |-> "Swimming", RUN |-> "Running", WLK |-> "SportsWalking"]
    IN  IF workout_type \notin DOMAIN action_classes
        THEN New("Running", data)
        ELSE New(action_classes[workout_type], data)

\* action_classes[workout_type] is evaluated before the call: an unknown
\* key raises KeyError(workout_type) whatever data holds
read_package(workout_type, data) ==
    LET action_classes ==
            [SWM |-> "Swimming", RUN |-> "Running", WLK |-> "SportsWalking"]
    IN  IF workout_type \notin DOMAIN action_classes
        THEN [class |-> "KeyError", raised_by |-> "read_package",
              args |-> <<workout_type>>]
        ELSE New(action_classes[workout_type], data)

(***************************************************************************)
(* The script: for workout_type, data in packages: training =              *)
(* read_package(workout_type, data); main(training).                       *)
(***************************************************************************)
MaxPackages == 3

\* the packages of __main__ and two malformed ones
PackagePool ==
    { <<"SWM", <<720, 1, 80, 25, 40>>>>,
      <<"RUN", <<15000, 1, 75>>>>,
      <<"WLK", <<9000, 1, 75, 180>>>>,
      <<"XYZ", <<1, 2, 3>>>>,
      <<"RUN", <<1, 2>>>> }

PackageLists == UNION { [1..n -> PackagePool] : n \in 0..MaxPackages }

Imported ==
    /\ attrs = ClassBodies
    /\ training = None
    /\ info = None
    /\ stdout = <<>>
    /\ exc = None
    /\ call = [fn |-> "import", args |-> <<>>]
    /\ ret = None

Init ==
    /\ Imported
    /\ packages \in PackageLists
    /\ i = 1
    /\ pc = "for"

\* ForReadPackage in a loop that catches the exception and goes on with
\* the next package
ForReadPackage_skipping ==
    /\ pc = "for"
    /\ i <= Len(packages)
    /\ \E r \in {read_package(packages[i][1], packages[i][2])} :
           IF IsException(r)
           THEN /\ i' = i + 1
                /\ UNCHANGED <<pc, exc, training>>
           ELSE /\ pc' = "main"
                /\ training' = r
                /\ UNCHANGED <<exc, i>>
    /\ UNCHANGED <<attrs, packages, info, stdout, call, ret>>

\* the loop takes the next package and calls read_package; an exception
\* is caught nowhere and ends the script with a traceback
ForReadPackage ==
    /\ pc = "for"
    /\ i <= Len(packages)
    /\ \E r \in {read_package(packages[i][1], packages[i][2])} :
           IF IsException(r)
           THEN /\ pc' = "traceback"
                /\ exc' = r
                /\ UNCHANGED training
           ELSE /\ pc' = "main"
                /\ training' = r
                /\ UNCHANGED exc
    /\ UNCHANGED <<attrs, packages, i, info, stdout, call, ret>>

\* Main printing the new line above the lines printed before
Main_prepending ==
    /\ pc = "main"
    /\ \E inf \in {show_training_info(training)} :
       \E infotext \in {get_message(inf)} :
           /\ info' = inf
           /\ IF IsException(infotext)
              THEN /\ pc' = "traceback"
                   /\ exc' = infotext
                   /\ UNCHANGED <<stdout, i>>
              ELSE /\ stdout' = <<infotext.s>> \o stdout
                   /\ i' = i + 1
                   /\ pc' = "for"
                   /\ UNCHANGED exc
    /\ UNCHANGED <<attrs, packages, training, call, ret>>

\* main(training), then back to the loop head
Main ==
    /\ pc = "main"
    /\ \E inf \in {show_training_info(training)} :
       \E infotext \in {get_message(inf)} :
           /\ info' = inf
           /\ IF IsException(infotext)
              THEN /\ pc' = "traceback"
                   /\ exc' = infotext
                   /\ UNCHANGED <<stdout, i>>
              ELSE /\ stdout' = Append(stdout, infotext.s)
                   /\ i' = i + 1
                   /\ pc' = "for"
                   /\ UNCHANGED exc
    /\ UNCHANGED <<attrs, packages, training, call, ret>>

\* the list is exhausted: the script ends
ForExit ==
    /\ pc = "for"
    /\ i > Len(packages)
    /\ pc' = "exit"
    /\ UNCHANGED <<attrs, packages, i, training, info, stdout, exc, call, ret>>

Next == ForReadPackage \/ Main \/ ForExit

Spec == Init /\ [][Next]_vars

(***************************************************************************)
(* A client of the module: its first call is read_package or a class of    *)
(* the module; on the workout it gets it calls the methods in any order.   *)
(***************************************************************************)
MaxAction == 3

MaxDuration == 2

MaxData == 6

Codes == {"SWM", "RUN", "WLK", "XYZ", "run"}

\* the values tried at position k of data
Field(k) ==
    CASE k = 1 -> 0..MaxAction
      [] k = 2 -> 1..MaxDuration
      [] k = 3 -> {75, 80}
      [] k = 4 -> {25, 180}
      [] k = 5 -> {2, 40}
      [] OTHER -> {1}

RECURSIVE DataOfLen(_)
DataOfLen(n) ==
    IF n = 0 THEN {<<>>}
    ELSE { Append(d, v) : d \in DataOfLen(n - 1), v \in Field(n) }

Data == UNION { DataOfLen(n) : n \in 0..MaxData }

InitCalls ==
    /\ Imported
    /\ packages = <<>>
    /\ i = 1
    /\ pc = "client"

Called(fn, args, r) ==
    /\ call' = [fn |-> fn, args |-> args]
    /\ ret' = r
    /\ UNCHANGED <<attrs, packages, i, pc, stdout, exc>>

CallReadPackage ==
    /\ pc = "client"
    /\ call.fn = "import"
    /\ \E workout_type \in Codes, data \in Data :
          \E r \in {read_package(workout_type, data)} :
              /\ Called("read_package", <<workout_type, data>>, r)
              /\ training' = IF IsException(r) THEN training ELSE r
    /\ UNCHANGED info

CallClass ==
    /\ pc = "client"
    /\ call.fn = "import"
    /\ \E cls \in DOMAIN Params, data \in Data :
          \E r \in {New(cls, data)} :
              /\ Called(cls, data, r)
              /\ training' = IF IsException(r) THEN training ELSE r
    /\ UNCHANGED info

CallGetDistance ==
    /\ pc = "client"
    /\ training # None
    /\ Called("get_distance", <<>>, get_distance(training))
    /\ UNCHANGED <<training, info>>

CallGetMeanSpeed ==
    /\ pc = "client"
    /\ training # None
    /\ Called("get_mean_speed", <<>>, get_mean_speed(training))
    /\ UNCHANGED <<training, info>>

CallGetSpentCalories ==
    /\ pc = "client"
    /\ training # None
    /\ Called("get_spent_calories", <<>>, get_spent_calories(training))
    /\ UNCHANGED <<training, info>>

CallShowTrainingInfo ==
    /\ pc = "client"
    /\ training # None
    /\ Called("show_training_info", <<>>, show_training_info(training))
    /\ info' = ret'
    /\ UNCHANGED training

CallGetMessage ==
    /\ pc = "client"
    /\ info # None
    /\ Called("get_message", <<>>, get_message(info))
    /\ UNCHANGED <<training, info>>

NextCalls ==
    \/ CallReadPackage
    \/ CallClass
    \/ CallGetDistance
    \/ CallGetMeanSpeed
    \/ CallGetSpentCalories
    \/ CallShowTrainingInfo
    \/ CallGetMessage

SpecCalls == InitCalls /\ [][NextCalls]_vars

(***************************************************************************)
(* Properties of read_package, checked on the client (SpecCalls).          *)
(***************************************************************************)
\* the number of data items of each recognised code
FieldCount == [SWM |-> 5, RUN |-> 3, WLK |-> 4]

\* the variant each recognised code stands for
VariantOf == [SWM |-> "Swimming", RUN |-> "Running", WLK |-> "SportsWalking"]

\* the client has just called read_package(code, data)
ReadPackageCalled(code, data) ==
    call.fn = "read_package" /\ call.args = <<code, data>>

\* C1: read_package with a code other than "SWM", "RUN", "WLK" fails,
\* whatever data is: it raises the error of the unknown code (KeyError in
\* the source), the error carries the code, and no workout is returned.
C1_UnknownCodeFails ==
    \A code \in Codes \ DOMAIN FieldCount, data \in Data :
        ReadPackageCalled(code, data) =>
            /\ ret.class = "KeyError"
            /\ ret.raised_by = "read_package"
            /\ ret.args = <<code>>
            /\ training = None

C1_Witness ==
    /\ ReadPackageCalled("XYZ", <<1, 2, 75>>)
    /\ ret.class = "KeyError"

\* C2 as stated: with a recognised code and data of another length than the
\* variant's field count, read_package fails with an ArityMismatch error
\* that a validation in read_package itself raises.
C2_ArityMismatchByValidation ==
    \A code \in DOMAIN FieldCount, data \in Data :
        ReadPackageCalled(code, data) /\ Len(data) # FieldCount[code] =>
            /\ ret.class = "ArityMismatch"
            /\ ret.raised_by = "read_package"

\* C2 amended: with a recognised code and data of another length than the
\* variant's field count, read_package fails with the TypeError that
\* binding data to the parameters of the variant's __init__ raises; data is
\* neither cut nor padded and no workout is returned.
C2_WrongLengthRaisesTypeError ==
    \A code \in DOMAIN FieldCount, data \in Data :
        ReadPackageCalled(code, data) /\ Len(data) # FieldCount[code] =>
            /\ ret.class = "TypeError"
            /\ ret.raised_by = VariantOf[code] \o ".__init__"
            /\ ret.expected = FieldCount[code]
            /\ ret.given = Len(data)
            /\ training = None

C2_Witness ==
    /\ \/ ReadPackageCalled("RUN", <<1, 2>>)
       \/ ReadPackageCalled("RUN", <<1, 2, 75, 25>>)
    /\ IsException(ret)

\* C3: with a recognised code and data of the variant's length, read_package
\* returns a workout of the variant of the code, with exactly the fields
\* action, duration, weight (then height for walking, length_pool and
\* count_pool for swimming) equal to the items of data in order.
C3_FieldsEqualData ==
    \A code \in DOMAIN FieldCount, data \in Data :
        ReadPackageCalled(code, data) /\ Len(data) = FieldCount[code] =>
            /\ ret = training
            /\ ret.class = VariantOf[code]
            /\ ret.action = data[1]
            /\ ret.duration = data[2]
            /\ ret.weight = data[3]
            /\ CASE code = "RUN" ->
                      DOMAIN ret = {"class", "action", "duration", "weight"}
                 [] code = "WLK" ->
                      /\ ret.height = data[4]
                      /\ DOMAIN ret = {"class", "action", "duration",
                                       "weight", "height"}
                 [] code = "SWM" ->
                      /\ ret.length_pool = data[4]
                      /\ ret.count_pool = data[5]
                      /\ DOMAIN ret = {"class", "action", "duration",
                                       "weight", "length_pool", "count_pool"}

C3_Witness ==
    /\ ReadPackageCalled("SWM", <<3, 1, 80, 25, 40>>)
    /\ training.class = "Swimming"
    /\ training.length_pool = 25
    /\ training.count_pool = 40

(***************************************************************************)
(* Properties of the methods, checked on the client (SpecCalls).           *)
(***************************************************************************)
Variants == {"Running", "SportsWalking", "Swimming"}

\* the client has just called the method fn of its workout
MethodCalled(fn) == call.fn = fn /\ training # None

\* action * stepLength / 1000 in floats, stepLength as the claim gives it
\* for the class
DistanceOf(class, action) ==
    FDiv(FMul(FromInt(action),
              IF class = "Swimming" THEN Lit(138, 100) ELSE Lit(65, 100)),
         FromInt(1000))

\* 1 + 2^-50
OnePlusEps == RoundInt(BAdd(BShl(<<1>>, 50), <<1>>), -50)

\* x and y differ by at most 2^-50 of their size
Near(x, y) == FLe(x, FMul(y, OnePlusEps)) /\ FLe(y, FMul(x, OnePlusEps))

\* C6 as stated: get_distance returns action * stepLength / 1000 (0.65 for
\* Running and SportsWalking, 1.38 for Swimming), whatever the other fields
\* are; distance(0) = 0 and distance(a + b) = distance(a) + distance(b).
C6_DistanceLinear ==
    MethodCalled("get_distance") /\ training.class \in Variants =>
        /\ ret = DistanceOf(training.class, training.action)
        /\ training.action = 0 => ret = FZero
        /\ \A a, b \in 0..training.action :
              a + b = training.action =>
                  ret = FAdd(DistanceOf(training.class, a),
                             DistanceOf(training.class, b))

\* C6 amended: get_distance returns the float action * stepLength / 1000
\* (0.65 for Running and SportsWalking, 1.38 for Swimming), whatever the
\* other fields are; distance(0) = 0, the distance does not decrease when
\* action grows, and distance(a + b) equals distance(a) + distance(b) up to
\* the rounding of the float operations (a relative error of 2^-50 at
\* most), not exactly.
C6_DistanceLinearUpToRounding ==
    MethodCalled("get_distance") /\ training.class \in Variants =>
        /\ ret = DistanceOf(training.class, training.action)
        /\ training.action = 0 => ret = FZero
        /\ \A a, b \in 0..training.action :
              a + b = training.action =>
                  /\ FLe(DistanceOf(training.class, a), ret)
                  /\ Near(ret, FAdd(DistanceOf(training.class, a),
                                    DistanceOf(training.class, b)))

C6_Witness ==
    /\ MethodCalled("get_distance")
    /\ training.class = "Running"
    /\ training.action = 3
    /\ ret # FAdd(DistanceOf("Running", 1), DistanceOf("Running", 2))

\* C7: in the summary of a Running or SportsWalking workout the speed is
\* the distance divided by duration; in that of a Swimming workout it is
\* length_pool * count_pool / 1000 / duration, whatever action is, and the
\* calories are (speed + 1.1) * 2 * weight * duration with that speed.
C7_SwimmingSpeedOverridden ==
    MethodCalled("show_training_info") /\ training.class \in Variants =>
        IF training.class = "Swimming"
        THEN /\ ret.speed =
                    FDiv(FDiv(FromInt(training.length_pool
                                      * training.count_pool),
                              FromInt(1000)),
                         FromInt(training.duration))
             /\ ret.calories =
                    FMul(FMul(FMul(FAdd(ret.speed, Lit(11, 10)), FromInt(2)),
                              FromInt(training.weight)),
                         FromInt(training.duration))
        ELSE ret.speed = FDiv(ret.distance, FromInt(training.duration))

C7_Witness ==
    /\ MethodCalled("show_training_info")
    /\ training.class = "Swimming"
    /\ ret.speed # FDiv(ret.distance, FromInt(training.duration))

\* C9 as stated: get_spent_calories and show_training_info of a workout of
\* the base class Training raise an error and return nothing, no summary
\* lacks its calories, and read_package returns workouts of the three
\* variants only.
C9_BaseTrainingRaises ==
    /\ /\ training # None
       /\ training.class = "Training"
       /\ call.fn \in {"get_spent_calories", "show_training_info"}
       => IsException(ret)
    /\ info # None => info.calories # None
    /\ call.fn = "read_package" /\ training # None
       => training.class \in Variants

\* C10: a call of get_distance, get_mean_speed, get_spent_calories,
\* show_training_info or get_message leaves the fields of the workout and
\* the attributes of the classes as they were, and show_training_info
\* called again returns a summary equal to the one before.
C10_MethodsChangeNothing ==
    [][call'.fn \in {"get_distance", "get_mean_speed", "get_spent_calories",
                     "show_training_info", "get_message"}
       => /\ training' = training
          /\ attrs' = attrs
          /\ call'.fn = "show_training_info" /\ info # None => ret' = info]_vars

C10_Witness ==
    /\ MethodCalled("get_message")
    /\ training.class = "SportsWalking"
    /\ ret.class = "str"
    /\ info = show_training_info(training)

(***************************************************************************)
(* Properties of the script (Spec).                                        *)
(***************************************************************************)
\* a package with a recognised code and as many data items as its variant
\* has fields
ValidPackage(p) == p[1] \in DOMAIN FieldCount /\ Len(p[2]) = FieldCount[p[1]]

\* the summary line of a valid package
Summary(p) == get_message(show_training_info(read_package(p[1], p[2]))).s

\* C4: on a list of valid packages the script prints one line per package
\* it has processed, the k-th line being the summary of the k-th package,
\* and ends with as many lines as there are packages.
C4_OneLinePerPackageInOrder ==
    (\A k \in 1..Len(packages) : ValidPackage(packages[k])) =>
        /\ pc \in {"for", "main", "exit"}
        /\ Len(stdout) = i - 1
        /\ \A k \in 1..Len(stdout) : stdout[k] = Summary(packages[k])
        /\ pc = "exit" => Len(stdout) = Len(packages)

C4_Witness ==
    /\ pc = "exit"
    /\ Len(packages) = MaxPackages
    /\ Len(stdout) = Len(packages)
    /\ \A j, k \in 1..Len(stdout) : j # k => stdout[j] # stdout[k]

\* C5: when package k is the first that read_package fails on (unknown code
\* or wrong number of data items), the script ends there with the
\* exception: the lines of packages 1..k-1 are printed, no line of package
\* k or of a later package is ever printed, and the script does not end
\* normally.
C5_FailureAbortsRun ==
    \A k \in 1..Len(packages) :
        /\ ~ValidPackage(packages[k])
        /\ \A j \in 1..(k - 1) : ValidPackage(packages[j])
        => /\ Len(stdout) <= k - 1
           /\ \A j \in 1..Len(stdout) : stdout[j] = Summary(packages[j])
           /\ i <= k
           /\ pc # "exit"
           /\ pc = "main" => i < k
           /\ pc = "traceback" =>
                 /\ i = k
                 /\ Len(stdout) = k - 1
                 /\ exc.class \in {"KeyError", "TypeError"}
                 /\ exc.raised_by # "NoneType.__format__"

C5_Witness ==
    /\ pc = "traceback"
    /\ i = 2
    /\ Len(stdout) = 1
    /\ Len(packages) = 3
    /\ ValidPackage(packages[3])

\* the script has just printed the summary of ("RUN", [15000, 1, 75])
RunPackagePrinted ==
    /\ pc = "for"
    /\ i > 1
    /\ packages[i - 1] = <<"RUN", <<15000, 1, 75>>>>

\* ((18 * speed + 1.79) * weight / 1000) * duration * 60 in floats
RunningCaloriesOf(speed, weight, duration) ==
    FMul(FMul(FDiv(FMul(FAdd(FMul(FromInt(18), speed), Lit(179, 100)),
                        FromInt(weight)),
                   FromInt(1000)),
              FromInt(duration)),
         FromInt(60))

\* C8 as stated: the summary of ("RUN", [15000, 1, 75]) has distance 9.750,
\* speed 9.750 and calories ((18 * speed + 1.79) * weight / 1000) *
\* duration * 60, which format to 798.000.
C8_RunCalories798 ==
    RunPackagePrinted =>
        /\ Fmt3(info.distance) = "9.750"
        /\ Fmt3(info.speed) = "9.750"
        /\ info.calories = RunningCaloriesOf(info.speed, 75, 1)
        /\ Fmt3(info.calories) = "798.000"

\* C8 amended: the summary of ("RUN", [15000, 1, 75]) has distance 9.750,
\* speed 9.750 and calories ((18 * speed + 1.79) * weight / 1000) *
\* duration * 60, which format to 797.805; the line printed shows these
\* three numbers.
C8_RunCalories797 ==
    RunPackagePrinted =>
        /\ Fmt3(info.distance) = "9.750"
        /\ Fmt3(info.speed) = "9.750"
        /\ info.calories = RunningCaloriesOf(info.speed, 75, 1)
        /\ Fmt3(info.calories) = "797.805"
        /\ stdout[i - 1] =
              "Tip trenirovki: Running; Dlitelnost: 1.000 ch.; "
              \o "Distantsiya: 9.750 km; Sr. skorost: 9.750 km/ch; "
              \o "Potracheno kkal: 797.805."

C8_Witness ==
    /\ RunPackagePrinted
    /\ Len(stdout) = i - 1
    /\ info.training_type = "Running"

====
